---- MODULE Spec2Model ----
(***************************************************************************)
(* Model of the payload flight computer (PAYLOAD_24-25).                   *)
(*                                                                         *)
(*  SpecFlight : SubscaleSystem of src/main.py: the serial line loop, the  *)
(*               sensor state it holds and its launch state.               *)
(*  SpecAcq    : the IMU acquisition channel of src/payload/hardware/imu.py*)
(*               with the queue helpers of src/payload/utils.py.           *)
(*  SpecProc   : IMUDataProcessor of data_processor.py.                    *)
(*  SpecDeadband, SpecAltitude : deadband and calculate_altitude as        *)
(*               functions of their arguments.                             *)
(*  SpecParse  : SubscaleSystem.parse_data on records of every shape.      *)
(*  SpecMock   : MockIMU._fetch_data of src/payload/mock/mock_imu.py.      *)
(*  SpecReplay : run_flight_loop of src/payload/main.py in mock replay.    *)
(*  SpecLoop   : run_flight_loop in mock and real mode, with every way the *)
(*               loop can end.                                             *)
(*  SpecInterrupt : main() of src/main.py with KeyboardInterrupts.         *)
(*  SpecShim   : the Windows queue shim of src/payload/utils.py.           *)
(*  SpecReader : PayloadSystem of src/spaceducks/Subscale.py: the reader   *)
(*               thread against shutdown().                                *)
(*  SpecDecoder : the binary packet decoder, which is not among the        *)
(*               sources; modelled from its written contract.              *)
(*                                                                         *)
(* Physical quantities are integers in tenths of the source's unit         *)
(* (0.4 m/s^2 is 4, 50 m/s^2 is 500, 2 m is 20).                           *)
(***************************************************************************)
EXTENDS Integers, Sequences, FiniteSets, TLC

VARIABLES
    \* ---- SubscaleSystem (src/main.py) ----
    state,          \* self.state, a LaunchState
    running,        \* self.running
    data,           \* self.data, the held sensor state
    rows,           \* number of data rows written to the CSV file
    closed,         \* the CSV file and the serial connection are closed
    nlines,         \* number of lines read by update() so far
    launchSeen,     \* history: a parsed sample exceeded MINIMUM_ARM_ACCEL
    restSeen,       \* history: after that, a parsed sample was at rest near ground
    lastLine,       \* history: the line the last call of parse_data was given
    interrupts,     \* history: number of KeyboardInterrupts delivered to main's loop
    \* ---- IMU acquisition (src/payload/hardware/imu.py, src/payload/utils.py) ----
    is_running,     \* the flag read by _fetch_data_loop
    data_queue,     \* self._data_queue: sequence of slots, oldest first
    ppc,            \* producer process: position in _fetch_data_loop
    held,           \* the item the producer is about to push (a slot, or NoItem)
    nextSeq,        \* number of the next packet the device delivers
    cpc,            \* consumer: position in the drain call it is in
    cmax,           \* max_messages_to_get of the call in progress
    cleft,          \* get_all_from_queue: gets still to do
    cbatch,         \* get_all_from_queue: samples fetched so far
    cempty,         \* the call in progress found the queue empty when it began
    lastBatch,      \* the batch the last finished drain returned
    lastMax,        \* max_messages_to_get of the last finished drain
    lastEmptyCall,  \* the last finished drain was called on an empty queue
    delivered,      \* every sample returned to the consumer, in order
    stopPc,         \* position of stop() ("none": not called)
    \* ---- IMUDataProcessor (src/payload/data_handling/data_processor.py) ----
    data_packets,                    \* self._data_packets
    initial_altitude,                \* self._initial_altitude, as [sum, n] (n = 0: None)
    last_data_packet,                \* self._last_data_packet (NoPacket: None)
    current_orientation_quaternions, \* self._current_orientation_quaternions (None: unset)
    max_altitude,                    \* self._max_altitude
    max_vertical_velocity,           \* self._max_vertical_velocity
    previous_vertical_velocity,      \* self._previous_vertical_velocity
    rotated_accelerations,           \* self._rotated_accelerations
    time_differences,                \* self._time_differences
    vertical_velocities,             \* self._vertical_velocities
    current_altitudes,               \* self._current_altitudes
    emitted,        \* what get_processed_data_packets returned since the last update
    clock,          \* timestamp of the last packet handed to update
    tick,           \* flips with every update call
    lastLen,        \* length of the batch of the last update call (-1: no call yet)
    outcome,        \* how the last non-empty update ended: "none", "ok", "raised"
    nfed,           \* number of packets passed to update so far
    lastOrdered,    \* no packet of the last non-empty batch was older than the one before it
    firstBatch,     \* the first non-empty batch passed to update
    allOk,          \* no update has raised so far
    fedAll,         \* while allOk: every packet passed to update, in order
    emittedV,       \* while allOk: the vertical velocities of every update, in order
    \* ---- deadband (src/payload/utils.py) ----
    db_input,       \* input_value
    db_threshold,   \* threshold
    db_output,      \* the value returned
    db_done,        \* deadband has been applied
    \* ---- calculate_altitude (src/main.py) ----
    alt_pressure,   \* pressure
    alt_temperature,\* temperature
    alt_result,     \* how the call ended
    alt_done,       \* calculate_altitude has been called
    \* ---- MockIMU (src/payload/mock/mock_imu.py), run_flight_loop (src/payload/main.py) ----
    current_index,      \* self._current_index
    last_fetch_time,    \* self._last_fetch_time
    mock_is_running,    \* MockIMU.is_running
    nrows,              \* len(self._data): rows of the recorded file
    now,                \* time.time(), in clock ticks
    fast_replay,        \* args.fast_replay
    producer_alive,     \* the context that calls _fetch_data is active
    returned,           \* history: the rows _fetch_data has returned, in order
    sampleTimes,        \* history: the times at which it returned them
    lastResult,         \* how the last call of _fetch_data ended
    fetchTick,          \* flips with every call of _fetch_data
    loop_pc,            \* run_flight_loop: "init", "running", "done"
    loop_exit,          \* how its try statement ended
    end_mock_natural,   \* flight_display.end_mock_natural is set
    \* ---- run_flight_loop in either mode (src/payload/main.py) ----
    args_mock,          \* args.mock
    phase,              \* the flight phase held by the payload context
    end_mock_interrupted, \* flight_display.end_mock_interrupted is set
    stop_calls,         \* history: the stop() calls made, in order
    \* ---- the queue with the Windows shim (src/payload/utils.py) ----
    shim_queue,         \* the items in the queue, oldest first
    shim_log,           \* history: for each of them, the list its packets make
    shim_got,           \* what the last get_many returned
    shim_src,           \* history: the list of the item it fetched
    \* ---- PayloadSystem (src/spaceducks/Subscale.py) ----
    ps_running,         \* self.running
    ps_open,            \* self.serial_connection is open
    rpc,                \* where the reader thread is in read_serial_data
    spc,                \* where the main thread is in shutdown
    ps_reads,           \* number of lines the reader thread has read
    ps_after_close,     \* history: the reader used the connection after close()
    \* ---- binary packet decoder ----
    dec_buffer,         \* the accumulating byte buffer
    dec_result,         \* what the last decode call yielded
    dec_prev,           \* history: the buffer that call was given
    dec_tick            \* the last step was a decode call

subVars == <<state, running, data, rows, closed, nlines, launchSeen, restSeen, lastLine,
             interrupts>>
acqVars == <<is_running, data_queue, ppc, held, nextSeq, cpc, cmax, cleft, cbatch, cempty,
             lastBatch, lastMax, lastEmptyCall, delivered, stopPc>>
procVars == <<data_packets, initial_altitude, last_data_packet,
              current_orientation_quaternions, max_altitude, max_vertical_velocity,
              previous_vertical_velocity, rotated_accelerations, time_differences,
              vertical_velocities, current_altitudes, emitted, clock, tick, lastLen,
              outcome, nfed, lastOrdered, firstBatch, allOk, fedAll, emittedV>>
dbVars == <<db_input, db_threshold, db_output, db_done>>
altVars == <<alt_pressure, alt_temperature, alt_result, alt_done>>
mockVars == <<current_index, last_fetch_time, mock_is_running, nrows, now, fast_replay,
              producer_alive, returned, sampleTimes, lastResult, fetchTick, loop_pc,
              loop_exit, end_mock_natural>>
loopVars == <<args_mock, phase, end_mock_interrupted, stop_calls>>
shimVars == <<shim_queue, shim_log, shim_got, shim_src>>
readerVars == <<ps_running, ps_open, rpc, spc, ps_reads, ps_after_close>>
decVars == <<dec_buffer, dec_result, dec_prev, dec_tick>>
vars == <<subVars, acqVars, procVars, dbVars, altVars, mockVars, loopVars, shimVars,
          readerVars, decVars>>
\* What the actions of one component leave alone.
laterVars == <<shimVars, readerVars, decVars>>
nonSubVars == <<acqVars, procVars, dbVars, altVars, mockVars, loopVars, laterVars>>
nonAcqVars == <<subVars, procVars, dbVars, altVars, mockVars, loopVars, laterVars>>
nonProcVars == <<subVars, acqVars, dbVars, altVars, mockVars, loopVars, laterVars>>
nonDbVars == <<subVars, acqVars, procVars, altVars, mockVars, loopVars, laterVars>>
nonAltVars == <<subVars, acqVars, procVars, dbVars, mockVars, loopVars, laterVars>>
nonLoopVars == <<subVars, acqVars, procVars, dbVars, altVars, laterVars>>
nonMockVars == <<nonLoopVars, loopVars>>
nonShimVars == <<subVars, acqVars, procVars, dbVars, altVars, mockVars, loopVars,
                 readerVars, decVars>>
nonReaderVars == <<subVars, acqVars, procVars, dbVars, altVars, mockVars, loopVars,
                   shimVars, decVars>>
nonDecVars == <<subVars, acqVars, procVars, dbVars, altVars, mockVars, loopVars,
                shimVars, readerVars>>

(***************************************************************************)
(* Bounds of the model.                                                    *)
(***************************************************************************)
MaxLines == 4          \* lines read by SubscaleSystem.update in one run
MaxPackets == 4        \* packets the IMU delivers in one run
MaxListLen == 2        \* longest list handed to put_many
MaxBatchArg == 2       \* largest max_messages_to_get a drain is called with
MAX_QUEUE_SIZE == 2    \* capacity of the acquisition queue (scaled down)

(***************************************************************************)
(* Queue items.  A slot of the queue holds one item: a single packet (put) *)
(* or a whole list of packets (put_many of the Windows shim, which is put).*)
(* Packets are numbered 1, 2, ... in the order the device delivers them.   *)
(***************************************************************************)
NoItem == [list |-> FALSE, items |-> <<>>]
Single(p) == [list |-> FALSE, items |-> <<p>>]
ListOf(ps) == [list |-> TRUE, items |-> ps]

RECURSIVE Flatten(_)
Flatten(q) == IF q = <<>> THEN <<>> ELSE Head(q).items \o Flatten(Tail(q))

\* Number of samples the slots of q carry.
NumSamples(q) == Len(Flatten(q))

(***************************************************************************)
(* SubscaleSystem, src/main.py                                             *)
(***************************************************************************)
LaunchState == {"STANDBY", "ARMED", "LANDED"}

MINIMUM_ARM_ACCEL == 500
MAXIMUM_REST_ACCEL == 4
MAXIMUM_REST_ALT == 20

\* Encodings of Python values; every number a record carries is >= 0.
None == -1              \* Python None
Absent == -2            \* the key is not in the decoded record
AbsentVec == <<>>       \* the "accel" key is not in the decoded record
AbsentGps == [null |-> TRUE, alt |-> Absent]  \* the "gps" key is not in the record
Malformed == [accel |-> <<>>, altitude |-> Absent, pressure |-> Absent,
              gps |-> AbsentGps, mag |-> Absent, magn |-> Absent, json |-> FALSE]
    \* a line json.loads rejects (also the empty line of a read timeout)
ScalarGroup == <<5>>    \* a group key holding a scalar: {"accel": 5}

\* Acceleration vectors a record can carry: |a| = 0.2, 0.4, 5, 50, 60 m/s^2.
AccelVals == {<<0, 0, 2>>, <<0, 0, 4>>, <<0, 0, 50>>, <<0, 0, 500>>, <<360, 480, 0>>}
\* Altitudes a record can carry: 0.5 m, 2 m, 100 m.
AltVals == {5, 20, 1000}
\* Pressures a record can carry, in Pa.
PressureVals == {0, 101325}
\* "gps" group of a record: JSON null, or an object with lat, lon and alt (alt may be null).
GpsVals == {[null |-> TRUE, alt |-> None]} \cup [null : {FALSE}, alt : AltVals \cup {None}]

\* The records of a flight; they carry no magnetic field.
Records == [accel : AccelVals \cup {AbsentVec},
            altitude : AltVals \cup {Absent},
            pressure : PressureVals \cup {Absent},
            gps : GpsVals \cup {AbsentGps},
            mag : {Absent},
            magn : {Absent},
            json : {TRUE}]
Lines == {Malformed} \cup Records

\* Records that differ in the keys they carry and in their structure.  The
\* magnetic field comes under the key "mag" or "magn"; its x, y and z are
\* handled alike and stand here as one number.
MagVals == {3, 7}
KeyRecords == [accel : {<<0, 0, 50>>, AbsentVec, ScalarGroup},
               altitude : {20, Absent},
               pressure : {101325, Absent},
               gps : {[null |-> FALSE, alt |-> 20], AbsentGps},
               mag : MagVals \cup {Absent},
               magn : MagVals \cup {Absent},
               json : {TRUE}]
KeyLines == {Malformed} \cup KeyRecords

\* No line has been parsed yet.
NoLine == [accel |-> <<>>, altitude |-> Absent, pressure |-> Absent,
           gps |-> AbsentGps, mag |-> Absent, magn |-> Absent, json |-> FALSE,
           none |-> TRUE]

\* self.data as __init__ leaves it (the groups this model follows).
InitData == [accel |-> <<0, 0, 0>>, altitude |-> None, pressure |-> 0,
             gps |-> [null |-> FALSE, alt |-> None], magn |-> 0]

\* The value is an acceleration group with x, y and z.
IsVector(a) == Len(a) = 3

\* Squared magnitude of an acceleration vector.
AccelMag2(a) == a[1] * a[1] + a[2] * a[2] + a[3] * a[3]

\* Lines 147-149: the held "magn" group is overwritten from the record's
\* "mag" key, with 0.0 when the record has none.
MagFix(rec) == IF rec.mag = Absent THEN 0 ELSE rec.mag

\* dict.update (line 144): every key of the record replaces the held value;
\* then the "magn" group is overwritten (lines 147-149).
DictUpdate(d, rec) ==
    [accel |-> IF rec.accel = AbsentVec THEN d.accel ELSE rec.accel,
     altitude |-> IF rec.altitude = Absent THEN d.altitude ELSE rec.altitude,
     pressure |-> IF rec.pressure = Absent THEN d.pressure ELSE rec.pressure,
     gps |-> IF rec.gps = AbsentGps THEN d.gps ELSE rec.gps,
     magn |-> MagFix(rec)]

\* What a call of calculate_altitude ends in: None, a number (with the
\* sign of the altitude), or an exception.
AltNone == [kind |-> "none", sign |-> 0]
AltNumber(sgn) == [kind |-> "number", sign |-> sgn]
AltRaises == [kind |-> "raises", sign |-> 0]

\* self.sea_level_pressure, the default of the prompt in __init__, in Pa.
sea_level_pressure == 101325
\* -273.15 C, in hundredths of a degree.
ABSOLUTE_ZERO == -27315

\* calculate_altitude.  pressure is in Pa, temperature in hundredths of a
\* degree C; either may be None (JSON null), and `None <= 0` is a TypeError
\* outside the function's try.  `or` does not look at the temperature when
\* the pressure is not positive.  For the inputs that reach the formula,
\* (T0 / L) * ((P0 / pressure) ** (R * L / g) - 1) has the sign of
\* P0 - pressure; its try guards a division that cannot fail there.
calculate_altitude(pressure, temperature) ==
    IF pressure = None THEN AltRaises
    ELSE IF pressure <= 0 THEN AltNone
    ELSE IF temperature = None THEN AltRaises
    ELSE IF temperature <= ABSOLUTE_ZERO THEN AltNone
    ELSE AltNumber(IF pressure < sea_level_pressure THEN 1
                   ELSE IF pressure = sea_level_pressure THEN 0 ELSE -1)

\* The body of parse_data's outer try raises (and the bare except swallows it)
\* when a None is formatted with :.2f, the gps group cannot be indexed or
\* the accel group is a scalar.  The held temperature is 0.0 C.
ParseRaises(d) ==
    IF d.gps.null
    THEN TRUE        \* else-branch, then self.data['gps']['lat'] on None
    ELSE \/ d.gps.alt = None
         \/ d.altitude = None
         \/ calculate_altitude(d.pressure, 0).kind # "number"
         \/ ~IsVector(d.accel)

\* A landing test that does not ask for ARMED first.
NextState_LandFromAny(s, d) ==
    IF /\ IsVector(d.accel)
       /\ AccelMag2(d.accel) < MAXIMUM_REST_ACCEL * MAXIMUM_REST_ACCEL
       /\ d.altitude # None
       /\ d.altitude < MAXIMUM_REST_ALT
    THEN "LANDED"
    ELSE s

\* The launch state update() leaves: the source never assigns self.state
\* after __init__.
NextState(s, d) == s

\* parse_data followed by the flush of update().
ParseAndFlush(line) ==
    /\ running
    /\ nlines < MaxLines
    /\ nlines' = nlines + 1
    /\ IF ~line.json
       THEN UNCHANGED <<data, rows, state, launchSeen, restSeen>>
       ELSE LET d == DictUpdate(data, line) IN
            /\ data' = d
            /\ rows' = IF ParseRaises(d) THEN rows ELSE rows + 1
            /\ state' = NextState(state, d)
            /\ launchSeen' = (launchSeen \/
                              (/\ IsVector(d.accel)
                               /\ AccelMag2(d.accel)
                                    > MINIMUM_ARM_ACCEL * MINIMUM_ARM_ACCEL))
            /\ restSeen' = (restSeen \/
                            (/\ launchSeen
                             /\ IsVector(d.accel)
                             /\ AccelMag2(d.accel) < MAXIMUM_REST_ACCEL * MAXIMUM_REST_ACCEL
                             /\ d.altitude # None
                             /\ d.altitude < MAXIMUM_REST_ALT))
    /\ UNCHANGED <<running, closed, interrupts>>
    /\ UNCHANGED nonSubVars

\* update().
Update(line) ==
    /\ ParseAndFlush(line)
    /\ UNCHANGED lastLine

\* update(), with the line kept as history.
UpdateRecorded(line) ==
    /\ ParseAndFlush(line)
    /\ lastLine' = [accel |-> line.accel, altitude |-> line.altitude,
                    pressure |-> line.pressure, gps |-> line.gps, mag |-> line.mag,
                    magn |-> line.magn, json |-> line.json, none |-> FALSE]

\* KeyboardInterrupt in main's loop: shutdown().
shutdown ==
    /\ running
    /\ running' = FALSE
    /\ closed' = TRUE
    /\ interrupts' = interrupts + 1
    /\ UNCHANGED <<state, data, rows, nlines, launchSeen, restSeen, lastLine>>
    /\ UNCHANGED nonSubVars

SubInit ==
    /\ state = "STANDBY"
    /\ running = TRUE
    /\ data = InitData
    /\ rows = 0
    /\ closed = FALSE
    /\ nlines = 0
    /\ launchSeen = FALSE
    /\ restSeen = FALSE
    /\ lastLine = NoLine
    /\ interrupts = 0

AcqIdle ==
    /\ is_running = FALSE
    /\ data_queue = <<>>
    /\ ppc = "idle"
    /\ held = NoItem
    /\ nextSeq = 1
    /\ cpc = "idle"
    /\ cmax = 0
    /\ cleft = 0
    /\ cbatch = <<>>
    /\ cempty = FALSE
    /\ lastBatch = <<>>
    /\ lastMax = 0
    /\ lastEmptyCall = FALSE
    /\ delivered = <<>>
    /\ stopPc = "none"


(***************************************************************************)
(* Components as constructed.  A specification of one component keeps the  *)
(* others in this state.                                                   *)
(***************************************************************************)

\* A decode call that yielded no sample ("no sample yet").
NoSample == [kind |-> "none", payload |-> <<>>]

\* A packet without estOrientQuaternion fields.
NoQuat == <<>>

\* self._current_orientation_quaternions = None
NoOrientation == [q |-> <<>>, n2 |-> 0]

\* self._last_data_packet = None
NoPacket ==
    [present |-> FALSE, timestamp |-> 0, estPressureAlt |-> None,
     accel |-> <<>>, gyro |-> 0, quat |-> NoQuat]

\* self._initial_altitude = None.  The baseline is kept as the exact
\* fraction sum / n of the altitudes it is the mean of.
NoBaseline == [sum |-> 0, n |-> 0]

\* get_processed_data_packets has not been called since the last update.
NotCalled == [called |-> FALSE, raised |-> FALSE, packets |-> <<>>]

\* IMUDataProcessor.__init__
ProcIdle ==
    /\ max_altitude = 0
    /\ vertical_velocities = <<0>>
    /\ max_vertical_velocity = 0
    /\ previous_vertical_velocity = 0
    /\ initial_altitude = NoBaseline
    /\ current_altitudes = <<0>>
    /\ last_data_packet = NoPacket
    /\ current_orientation_quaternions = NoOrientation
    /\ rotated_accelerations = <<0>>
    /\ data_packets = <<>>
    /\ time_differences = <<0>>
    /\ emitted = NotCalled
    /\ clock = 0
    /\ tick = FALSE
    /\ lastLen = -1
    /\ outcome = "none"
    /\ nfed = 0
    /\ lastOrdered = TRUE
    /\ firstBatch = <<>>
    /\ allOk = TRUE
    /\ fedAll = <<>>
    /\ emittedV = <<>>

\* deadband has not been called.
DbIdle ==
    /\ db_input = 0
    /\ db_threshold = 0
    /\ db_output = 0
    /\ db_done = FALSE

\* calculate_altitude has not been called.
AltIdle ==
    /\ alt_pressure = 0
    /\ alt_temperature = 0
    /\ alt_result = AltNone
    /\ alt_done = FALSE

\* No replay: MockIMU.__init__ on an empty recording, the loop not entered.
MockIdle ==
    /\ current_index = 0
    /\ last_fetch_time = 0
    /\ mock_is_running = TRUE
    /\ nrows = 0
    /\ now = 0
    /\ fast_replay = FALSE
    /\ producer_alive = FALSE
    /\ returned = <<>>
    /\ sampleTimes = <<>>
    /\ lastResult = "none"
    /\ fetchTick = FALSE
    /\ loop_pc = "init"
    /\ loop_exit = "none"
    /\ end_mock_natural = FALSE

\* run_flight_loop has not been entered.
LoopIdle ==
    /\ args_mock = FALSE
    /\ phase = "STANDBY"
    /\ end_mock_interrupted = FALSE
    /\ stop_calls = <<>>

\* An empty queue.
ShimIdle ==
    /\ shim_queue = <<>>
    /\ shim_log = <<>>
    /\ shim_got = NoItem
    /\ shim_src = <<>>

\* PayloadSystem.__init__: the reader thread has been started.
ReaderIdle ==
    /\ ps_running = TRUE
    /\ ps_open = TRUE
    /\ rpc = "while"
    /\ spc = "idle"
    /\ ps_reads = 0
    /\ ps_after_close = FALSE

\* The decoder with an empty buffer.
DecIdle ==
    /\ dec_buffer = <<>>
    /\ dec_result = NoSample
    /\ dec_prev = <<>>
    /\ dec_tick = FALSE

\* The components the earlier specifications do not involve.
LaterIdle == LoopIdle /\ ShimIdle /\ ReaderIdle /\ DecIdle

FlightInit == SubInit /\ AcqIdle /\ ProcIdle /\ DbIdle /\ AltIdle /\ MockIdle /\ LaterIdle

FlightNext ==
    \/ \E line \in Lines : Update(line)
    \/ shutdown

SpecFlight == FlightInit /\ [][FlightNext]_vars

\* The line loop fed with records that differ in keys and structure.
ParseNext ==
    \/ \E line \in KeyLines : UpdateRecorded(line)
    \/ shutdown

SpecParse == FlightInit /\ [][ParseNext]_vars

\* Where in parse_data a KeyboardInterrupt can arrive: before the record is
\* merged (line 144) or after it, before the row is written (line 178).
InterruptPoints == {"before_update", "after_update"}

\* The bare `except:` of parse_data (lines 203-204): TRUE when the exception
\* is caught there.  A bare except catches every BaseException.
bare_except(exc) == TRUE

\* update() with a KeyboardInterrupt raised inside parse_data's outer try.
\* When the bare except catches it, parse_data returns, update() flushes and
\* main's loop goes on; no row is written for the line.  Otherwise it
\* reaches main's handler, which calls shutdown().
KeyboardInterruptInParse(line, point) ==
    /\ running
    /\ nlines < MaxLines
    /\ nlines' = nlines + 1
    /\ interrupts' = interrupts + 1
    /\ IF line.json /\ point = "after_update"
       THEN data' = DictUpdate(data, line)
       ELSE UNCHANGED data
    /\ IF bare_except("KeyboardInterrupt")
       THEN UNCHANGED <<running, closed>>
       ELSE running' = FALSE /\ closed' = TRUE
    /\ UNCHANGED <<rows, state, launchSeen, restSeen, lastLine>>
    /\ UNCHANGED nonSubVars

\* main(): the loop with a KeyboardInterrupt possible at any point of an
\* iteration.
InterruptNext ==
    \/ \E line \in KeyLines : Update(line)
    \/ shutdown
    \/ \E line \in KeyLines, point \in InterruptPoints :
           KeyboardInterruptInParse(line, point)

SpecInterrupt == FlightInit /\ [][InterruptNext]_vars

(***************************************************************************)
(* Claims on SubscaleSystem (SpecFlight)                                   *)
(***************************************************************************)

\* C1: the launch state has left STANDBY exactly when a parsed sample's
\* acceleration magnitude has exceeded MINIMUM_ARM_ACCEL: it is ARMED (or
\* later) from the first such sample on, and STANDBY before it.
C1_ArmedAtFirstLaunchSample == (state # "STANDBY") <=> launchSeen

\* C2: the launch state is LANDED exactly when, after the launch sample, a
\* sample has had both its acceleration magnitude below MAXIMUM_REST_ACCEL
\* and its altitude below MAXIMUM_REST_ALT.
C2_LandedAtFirstRestSample == (state = "LANDED") <=> restSeen

\* C3: the launch state starts at STANDBY and every step leaves it alone or
\* takes STANDBY -> ARMED or ARMED -> LANDED; nothing leaves LANDED.
C3_PhaseOrder ==
    /\ state = "STANDBY"
    /\ [][\/ state' = state
          \/ state = "STANDBY" /\ state' = "ARMED"
          \/ state = "ARMED" /\ state' = "LANDED"]_vars

\* C3 witness: update() has parsed a launch sample and then a sample at rest
\* near the ground (a whole flight profile has gone through the state update).
C3_Witness == restSeen /\ nlines >= 2 /\ state \in LaunchState


(***************************************************************************)
(* Claims on parse_data (SpecParse)                                        *)
(***************************************************************************)

\* C27: after a record is parsed, every field the record does not carry is
\* held as unknown (None, no vector): not as 0.0 and not as the value of an
\* earlier record.
C27_AbsentFieldIsUnknown ==
    (~lastLine.none /\ lastLine.json)
      => /\ lastLine.accel = AbsentVec => data.accel = AbsentVec
         /\ lastLine.altitude = Absent => data.altitude = None
         /\ lastLine.pressure = Absent => data.pressure = None
         /\ (lastLine.mag = Absent /\ lastLine.magn = Absent) => data.magn = None

\* C28: after a record that carries the magnetic field under "mag" or under
\* "magn" is parsed, the held magnetic field is the record's.
C28_MagneticFieldFromEitherKey ==
    (~lastLine.none /\ lastLine.json)
      => /\ (lastLine.mag # Absent /\ lastLine.magn = Absent)
              => data.magn = lastLine.mag
         /\ (lastLine.magn # Absent /\ lastLine.mag = Absent)
              => data.magn = lastLine.magn

\* The line is not a well-formed record: not JSON, or a group key holds a
\* scalar.
IllFormed(line) == ~line.json \/ line.accel = ScalarGroup

\* C29: a call of parse_data with a line that is not a well-formed record
\* writes no row and leaves self.data as it was.
C29_IllFormedLineChangesNothing ==
    [][(nlines' = nlines + 1 /\ IllFormed(lastLine'))
         => (rows' = rows /\ data' = data)]_vars


(***************************************************************************)
(* calculate_altitude as a function (SpecAltitude)                         *)
(***************************************************************************)

\* Pressures in Pa and temperatures in hundredths of a degree C the
\* function is called with; None is JSON null.
AltPressures == {None, -100, 0, 1, 50000, 101325, 200000}
AltTemperatures == {None, -30000, ABSOLUTE_ZERO, ABSOLUTE_ZERO + 1, -100, 0, 2000, 10000}

AltitudeInit ==
    /\ SubInit /\ AcqIdle /\ ProcIdle /\ DbIdle /\ MockIdle /\ LaterIdle
    /\ alt_pressure \in AltPressures
    /\ alt_temperature \in AltTemperatures
    /\ alt_result = AltNone
    /\ alt_done = FALSE

\* A call calculate_altitude(alt_pressure, alt_temperature).
CallCalculateAltitude ==
    /\ ~alt_done
    /\ alt_result' = calculate_altitude(alt_pressure, alt_temperature)
    /\ alt_done' = TRUE
    /\ UNCHANGED <<alt_pressure, alt_temperature>>
    /\ UNCHANGED nonAltVars

AltitudeNext == CallCalculateAltitude

SpecAltitude == AltitudeInit /\ [][AltitudeNext]_vars

\* C30: calculate_altitude never raises, and it returns None whenever the
\* pressure is not positive or the temperature is at or below -273.15 C.
C30_AltitudeUnknownNeverRaises ==
    alt_done
      => /\ alt_result.kind # "raises"
         /\ ((alt_pressure # None /\ alt_pressure <= 0)
              \/ (alt_temperature # None /\ alt_temperature <= ABSOLUTE_ZERO))
                => alt_result.kind = "none"


(***************************************************************************)
(* IMU acquisition: src/payload/hardware/imu.py, src/payload/utils.py      *)
(*                                                                         *)
(* The producer is the "IMU Process" running _query_imu_for_data_packets;  *)
(* the consumer is the control loop.  The packets the device delivers are  *)
(* input of the model (the source's device call is a placeholder).         *)
(* start(), stop() and the is_running flag belong to BaseIMU, which is not *)
(* part of the sources: they follow the specification's section 4.2.       *)
(***************************************************************************)
ProducerExited == ppc \in {"done", "crashed"}

\* multiprocessing.Queue(maxsize=MAX_QUEUE_SIZE).put(item) with the default
\* block=True, timeout=None: the call waits while the queue holds maxsize items.
PutEnabled_DropOldest(q) == TRUE

PutEnabled(q) == Len(q) < MAX_QUEUE_SIZE

\* The queue after put(item) has gone through.
QueueAfterPut(q, item) ==
    IF Len(q) < MAX_QUEUE_SIZE THEN Append(q, item) ELSE Append(Tail(q), item)

\* get_all_from_queue: [self.get() for _ in range(self.qsize())] collects the
\* fetched items in the order of the gets.
GafqCollect_Prepend(batch, item) == item.items \o batch

GafqCollect(batch, item) == batch \o item.items

\* get_always_list: the fetched item itself when it is a list, else [fetched].
get_always_list_result(item) == item.items

\* BaseIMU.start(): set the flag and start the process.
start ==
    /\ ppc = "idle"
    /\ stopPc = "none"
    /\ is_running' = TRUE
    /\ ppc' = "loop"
    /\ UNCHANGED <<data_queue, held, nextSeq, cpc, cmax, cleft, cbatch, cempty,
                   lastBatch, lastMax, lastEmptyCall, delivered, stopPc>>
    /\ UNCHANGED nonAcqVars

\* _fetch_data_loop: while self.is_running
LoopCheck ==
    /\ ppc = "loop"
    /\ ppc' = IF is_running THEN "fetch" ELSE "done"
    /\ UNCHANGED <<is_running, data_queue, held, nextSeq, cpc, cmax, cleft, cbatch,
                   cempty, lastBatch, lastMax, lastEmptyCall, delivered, stopPc>>
    /\ UNCHANGED nonAcqVars

\* _fetch_data_loop: a recognised packet is initialised and populated.
FetchPacket ==
    /\ ppc = "fetch"
    /\ nextSeq <= MaxPackets
    /\ held' = Single(nextSeq)
    /\ nextSeq' = nextSeq + 1
    /\ ppc' = "put"
    /\ UNCHANGED <<is_running, data_queue, cpc, cmax, cleft, cbatch, cempty,
                   lastBatch, lastMax, lastEmptyCall, delivered, stopPc>>
    /\ UNCHANGED nonAcqVars

\* A producer that pushes a list of n packets through put_many, which
\* modify_multiprocessing_queue_windows makes the queue's put.
FetchBatch(n) ==
    /\ ppc = "fetch"
    /\ n >= 1
    /\ nextSeq + n - 1 <= MaxPackets
    /\ held' = ListOf([i \in 1..n |-> nextSeq + i - 1])
    /\ nextSeq' = nextSeq + n
    /\ ppc' = "put"
    /\ UNCHANGED <<is_running, data_queue, cpc, cmax, cleft, cbatch, cempty,
                   lastBatch, lastMax, lastEmptyCall, delivered, stopPc>>
    /\ UNCHANGED nonAcqVars

\* _fetch_data_loop: an unrecognised packet is skipped (continue).
FetchSkip ==
    /\ ppc = "fetch"
    /\ ppc' = "loop"
    /\ UNCHANGED <<is_running, data_queue, held, nextSeq, cpc, cmax, cleft, cbatch,
                   cempty, lastBatch, lastMax, lastEmptyCall, delivered, stopPc>>
    /\ UNCHANGED nonAcqVars

\* An exception while fetching or decoding a packet: _query_imu_for_data_packets
\* suppresses KeyboardInterrupt only, so the process ends with the exception.
\* Nothing on this path writes the flag.
FetchFails ==
    /\ ppc = "fetch"
    /\ ppc' = "crashed"
    /\ UNCHANGED <<is_running, data_queue, held, nextSeq, cpc, cmax, cleft, cbatch,
                   cempty, lastBatch, lastMax, lastEmptyCall, delivered, stopPc>>
    /\ UNCHANGED nonAcqVars

\* self._data_queue.put(imu_data_packet)
Put ==
    /\ ppc = "put"
    /\ PutEnabled(data_queue)
    /\ data_queue' = QueueAfterPut(data_queue, held)
    /\ held' = NoItem
    /\ ppc' = "loop"
    /\ UNCHANGED <<is_running, nextSeq, cpc, cmax, cleft, cbatch, cempty,
                   lastBatch, lastMax, lastEmptyCall, delivered, stopPc>>
    /\ UNCHANGED nonAcqVars


\* get_all_from_queue(max_messages_to_get=m): the argument is popped and
\* dropped, then qsize() is read once.  m = 0 stands for "not given".
CallGetAll(m) ==
    /\ cpc = "idle"
    /\ ppc # "idle"
    /\ stopPc = "none"
    /\ cpc' = "get_all"
    /\ cmax' = m
    /\ cleft' = Len(data_queue)
    /\ cbatch' = <<>>
    /\ cempty' = (data_queue = <<>>)
    /\ UNCHANGED <<is_running, data_queue, ppc, held, nextSeq,
                   lastBatch, lastMax, lastEmptyCall, delivered, stopPc>>
    /\ UNCHANGED nonAcqVars

\* get_all_from_queue: one self.get() of the list comprehension.
GetAllGet ==
    /\ cpc = "get_all"
    /\ cleft > 0
    /\ data_queue # <<>>
    /\ cbatch' = GafqCollect(cbatch, Head(data_queue))
    /\ data_queue' = Tail(data_queue)
    /\ cleft' = cleft - 1
    /\ UNCHANGED <<is_running, ppc, held, nextSeq, cpc, cmax, cempty,
                   lastBatch, lastMax, lastEmptyCall, delivered, stopPc>>
    /\ UNCHANGED nonAcqVars

\* get_all_from_queue: the list is returned.
GetAllReturn ==
    /\ cpc = "get_all"
    /\ cleft = 0
    /\ cpc' = "idle"
    /\ lastBatch' = cbatch
    /\ lastMax' = cmax
    /\ lastEmptyCall' = cempty
    /\ delivered' = delivered \o cbatch
    /\ cbatch' = <<>>
    /\ UNCHANGED <<is_running, data_queue, ppc, held, nextSeq, cmax, cleft, cempty, stopPc>>
    /\ UNCHANGED nonAcqVars

\* get_many of the Windows shim, get_always_list(max_messages_to_get=m): every
\* argument goes on to Queue.get, which knows block and timeout only, so a
\* max_messages_to_get raises TypeError in the caller.  m = 0: not given.
CallGetAlwaysList(m) ==
    /\ cpc = "idle"
    /\ ppc # "idle"
    /\ stopPc = "none"
    /\ cpc' = IF m > 0 THEN "TypeError" ELSE "get_always_list"
    /\ cmax' = m
    /\ cempty' = (data_queue = <<>>)
    /\ UNCHANGED <<is_running, data_queue, ppc, held, nextSeq, cleft, cbatch,
                   lastBatch, lastMax, lastEmptyCall, delivered, stopPc>>
    /\ UNCHANGED nonAcqVars

\* get_always_list: self.get() with block=True waits for an item.
GetAlwaysListGet ==
    /\ cpc = "get_always_list"
    /\ data_queue # <<>>
    /\ cpc' = "idle"
    /\ lastBatch' = get_always_list_result(Head(data_queue))
    /\ lastMax' = cmax
    /\ lastEmptyCall' = cempty
    /\ delivered' = delivered \o get_always_list_result(Head(data_queue))
    /\ data_queue' = Tail(data_queue)
    /\ UNCHANGED <<is_running, ppc, held, nextSeq, cmax, cleft, cbatch, cempty, stopPc>>
    /\ UNCHANGED nonAcqVars

\* stop(): signal the producer (the control loop has ended, by its break or
\* by an exception: run_flight_loop calls payload.stop() in its finally).
StopSignal ==
    /\ stopPc = "none"
    /\ ppc # "idle"
    /\ cpc \in {"idle", "TypeError"}
    /\ is_running' = FALSE
    /\ stopPc' = "join"
    /\ UNCHANGED <<data_queue, ppc, held, nextSeq, cpc, cmax, cleft, cbatch, cempty,
                   lastBatch, lastMax, lastEmptyCall, delivered>>
    /\ UNCHANGED nonAcqVars

\* stop(): the wait ends because the producer has exited.
StopJoined ==
    /\ stopPc = "join"
    /\ ProducerExited
    /\ stopPc' = "drain"
    /\ UNCHANGED <<is_running, data_queue, ppc, held, nextSeq, cpc, cmax, cleft, cbatch,
                   cempty, lastBatch, lastMax, lastEmptyCall, delivered>>
    /\ UNCHANGED nonAcqVars

\* stop(): the wait ends by its timeout.  The timeout is taken to be long
\* enough for a producer that can run to reach its exit: it elapses only on a
\* producer that waits in put on a full queue.
StopTimeout ==
    /\ stopPc = "join"
    /\ ppc = "put"
    /\ ~PutEnabled(data_queue)
    /\ stopPc' = "drain"
    /\ UNCHANGED <<is_running, data_queue, ppc, held, nextSeq, cpc, cmax, cleft, cbatch,
                   cempty, lastBatch, lastMax, lastEmptyCall, delivered>>
    /\ UNCHANGED nonAcqVars

\* stop(): the remaining buffered samples are drained and discarded.
StopDrain ==
    /\ stopPc = "drain"
    /\ data_queue' = <<>>
    /\ stopPc' = "returned"
    /\ UNCHANGED <<is_running, ppc, held, nextSeq, cpc, cmax, cleft, cbatch,
                   cempty, lastBatch, lastMax, lastEmptyCall, delivered>>
    /\ UNCHANGED nonAcqVars

AcqInit == SubInit /\ AcqIdle /\ ProcIdle /\ DbIdle /\ AltIdle /\ MockIdle /\ LaterIdle

Producer ==
    \/ LoopCheck
    \/ FetchPacket
    \/ \E n \in 1..MaxListLen : FetchBatch(n)
    \/ FetchSkip
    \/ FetchFails
    \/ Put

Consumer ==
    \/ \E m \in 0..MaxBatchArg : CallGetAll(m)
    \/ GetAllGet
    \/ GetAllReturn
    \/ \E m \in 0..MaxBatchArg : CallGetAlwaysList(m)
    \/ GetAlwaysListGet

Stop ==
    \/ StopSignal
    \/ StopJoined
    \/ StopTimeout
    \/ StopDrain

AcqNext ==
    \/ start
    \/ Producer
    \/ Consumer
    \/ Stop

SpecAcq == AcqInit /\ [][AcqNext]_vars


(***************************************************************************)
(* Claims on the acquisition channel (SpecAcq)                             *)
(***************************************************************************)

\* q is what is left of p after items were taken from its head.
IsSuffix(q, p) ==
    /\ Len(q) <= Len(p)
    /\ q = SubSeq(p, Len(p) - Len(q) + 1, Len(p))

\* Number of packets the producer has pushed so far.
NPushed == nextSeq - 1 - Len(held.items)

\* C4: while the queue holds MAX_QUEUE_SIZE items the producer's push does not
\* complete (the producer stays at its put with the same item), and every
\* step either appends the pushed item behind the buffered ones or takes
\* items from the head: a push never drops or overwrites a buffered packet.
C4_FullQueueBlocksPush ==
    [][/\ (ppc = "put" /\ Len(data_queue) = MAX_QUEUE_SIZE)
            => (ppc' = "put" /\ held' = held)
       /\ \/ data_queue' = Append(data_queue, held)
          \/ IsSuffix(data_queue', data_queue)]_vars

\* C4 witness: the producer waits in put on a full queue while the control
\* loop is still running.
C4_Witness ==
    /\ ppc = "put"
    /\ Len(data_queue) = MAX_QUEUE_SIZE
    /\ stopPc = "none"

\* C5: the number of samples held in the acquisition queue never exceeds
\* MAX_QUEUE_SIZE.
C5_SamplesBounded == NumSamples(data_queue) <= MAX_QUEUE_SIZE

\* C6: the samples returned to the consumer, batch after batch, are a prefix
\* of the samples pushed (1, 2, 3, ... in push order): same order, none
\* twice, none skipped.
C6_DeliveredIsPrefixOfPushed ==
    /\ Len(delivered) <= NPushed
    /\ \A i \in 1..Len(delivered) : delivered[i] = i

\* C6 witness: the consumer has received several samples in more than one
\* drain while the producer has pushed further ones that are still buffered.
C6_Witness ==
    /\ Len(delivered) >= 3
    /\ Len(lastBatch) >= 2
    /\ Len(lastBatch) < Len(delivered)
    /\ data_queue # <<>>

\* C7: a drain never waits on an empty queue, and a drain called on an empty
\* queue returns the empty batch.
C7_DrainNeverBlocks ==
    /\ ~(cpc = "get_always_list" /\ data_queue = <<>>)
    /\ lastEmptyCall => lastBatch = <<>>

\* C8: a drain called with a maximum batch size returns at most that many
\* samples.
C8_BatchAtMostMax == lastMax > 0 => Len(lastBatch) <= lastMax

\* C9: once the producer has ended by an exception in its fetch loop,
\* is_running is false.
C9_FailureClearsIsRunning == ppc = "crashed" => ~is_running

\* C10: once stop() has returned, is_running is false and the queue is empty
\* (the producer pushes nothing after it).
C10_StopLeavesChannelEmpty ==
    stopPc = "returned" => (~is_running /\ data_queue = <<>>)


(***************************************************************************)
(* IMUDataProcessor: src/payload/data_handling/data_processor.py           *)
(*                                                                         *)
(* Numbers are exact integers.  Accelerations are in units of 0.05 m/s^2,  *)
(* timestamps in an integer time unit (the code scales them by 1e-9, which *)
(* only fixes the unit), altitudes in metres.  The baseline altitude is    *)
(* the mean of the first batch: it is kept as the fraction sum / n, and    *)
(* _current_altitudes and _max_altitude are kept multiplied by that n, so  *)
(* that altitude - baseline is the integer n * altitude - sum.             *)
(*                                                                         *)
(* Orientations are rotations about the body x axis by a whole number of   *)
(* quarter turns (0..3); angular rates are quarter turns per time unit.    *)
(* For these inputs scipy's Rotation gives exactly the operators below.    *)
(***************************************************************************)

\* Total number of packets passed to update in one behaviour.
MaxSamples == 3

\* payload.constants (imported at data_processor.py:7-10), in 0.05 m/s^2.
GRAVITY_METERS_PER_SECOND_SQUARED == 196
ACCEL_DEADBAND_METERS_PER_SECOND_SQUARED == 2

\* A packet whose three estCompensatedAccel fields are None.
NoAccel == <<>>

\* The packets update is given, before their timestamps are fixed: dt is the
\* packet's timestamp minus that of the packet passed before it.
\* estPressureAlt = None stands for a packet without a usable estPressureAlt
\* (the field is None, or the packet class does not have it).  quat is
\* estOrientQuaternionW, X, Y, Z as sent (not necessarily of norm 1), and
\* gyro is estAngularRateX in quarter turns per unit of time.
Climbing ==
    [estPressureAlt |-> 50, gyro |-> 0, quat |-> <<1, 0, 0, 0>>,
     accel |-> <<0, 0, -(GRAVITY_METERS_PER_SECOND_SQUARED + 10)>>]

Turning ==
    [estPressureAlt |-> 10, gyro |-> 1, quat |-> <<1, 0, 0, 0>>,
     accel |-> <<0, -(GRAVITY_METERS_PER_SECOND_SQUARED - 10),
                    -(GRAVITY_METERS_PER_SECOND_SQUARED + 1)>>]

Tilted ==
    [estPressureAlt |-> 30, gyro |-> 0, quat |-> <<2, 2, 0, 0>>,
     accel |-> <<0, -(GRAVITY_METERS_PER_SECOND_SQUARED + 2),
                    -(GRAVITY_METERS_PER_SECOND_SQUARED - 10)>>]

NoAltitude ==
    [estPressureAlt |-> None, gyro |-> 0, quat |-> <<1, 0, 0, 0>>,
     accel |-> <<0, 0, -(GRAVITY_METERS_PER_SECOND_SQUARED + 10)>>]

NoAcceleration ==
    [estPressureAlt |-> 50, gyro |-> 0, quat |-> <<1, 0, 0, 0>>,
     accel |-> NoAccel]

At(d, v) ==
    [dt |-> d, estPressureAlt |-> v.estPressureAlt, gyro |-> v.gyro,
     quat |-> v.quat, accel |-> v.accel]

Templates ==
    { At(d, Climbing) : d \in {-1, 1, 2} }
    \cup { At(d, Turning) : d \in {1, 2} }
    \cup { At(1, Tilted), At(1, NoAltitude), At(1, NoAcceleration) }

\* The batches of at most n packets.
Batches(n) == UNION { [1..k -> Templates] : k \in 0..n }

RECURSIVE SumSeq(_)
SumSeq(xs) == IF xs = <<>> THEN 0 ELSE xs[1] + SumSeq(Tail(xs))

\* numpy.cumsum
CumSum(xs) == [i \in 1..Len(xs) |-> SumSeq(SubSeq(xs, 1, i))]

\* ndarray.max() of a non-empty array
SeqMax(xs) == CHOOSE m \in {xs[i] : i \in 1..Len(xs)} :
                  \A i \in 1..Len(xs) : xs[i] <= m

Abs(v) == IF v < 0 THEN -v ELSE v

\* The packets of a batch, with the timestamps its dt give after time t.
Materialize(t, tb) ==
    [i \in 1..Len(tb) |->
        [present |-> TRUE,
         timestamp |-> t + SumSeq([j \in 1..i |-> tb[j].dt]),
         estPressureAlt |-> tb[i].estPressureAlt,
         accel |-> tb[i].accel,
         gyro |-> tb[i].gyro,
         quat |-> tb[i].quat]]

\* No packet of the batch has a timestamp smaller than that of the packet
\* before it; the first packet ever passed has none before it.
Ordered(tb, first) ==
    \A i \in 1..Len(tb) : (i = 1 /\ first) \/ tb[i].dt >= 0

\* deadband as its docstring has it: values outside the band come back
\* "adjusted by the threshold".
deadband_Shifted(input_value, threshold) ==
    IF Abs(input_value) < threshold THEN 0
    ELSE IF input_value > 0 THEN input_value - threshold
    ELSE input_value + threshold

\* utils.deadband
deadband(input_value, threshold) ==
    IF Abs(input_value) < threshold THEN 0 ELSE input_value

\* The fields of the processor as one record.
ProcState ==
    [data_packets |-> data_packets,
     initial_altitude |-> initial_altitude,
     last_data_packet |-> last_data_packet,
     current_orientation_quaternions |-> current_orientation_quaternions,
     max_altitude |-> max_altitude,
     max_vertical_velocity |-> max_vertical_velocity,
     previous_vertical_velocity |-> previous_vertical_velocity,
     rotated_accelerations |-> rotated_accelerations,
     time_differences |-> time_differences,
     vertical_velocities |-> vertical_velocities,
     current_altitudes |-> current_altitudes]

\* The processor after __init__.
NewProcessor ==
    [data_packets |-> <<>>,
     initial_altitude |-> NoBaseline,
     last_data_packet |-> NoPacket,
     current_orientation_quaternions |-> NoOrientation,
     max_altitude |-> 0,
     max_vertical_velocity |-> 0,
     previous_vertical_velocity |-> 0,
     rotated_accelerations |-> <<0>>,
     time_differences |-> <<0>>,
     vertical_velocities |-> <<0>>,
     current_altitudes |-> <<0>>]

\* _first_update taking the batch's last packet as the reference.
FirstReference_LastOfBatch(batch) == batch[Len(batch)]

\* _first_update, line 161: the packet the first time difference is taken from.
FirstReference(batch) == batch[1]

\* A rotation is held as a quaternion with integer components q (w, x, y,
\* z) over the square root of n2: it has norm 1 exactly when the squares
\* of q add up to n2.
Norm2(q) == q[1] * q[1] + q[2] * q[2] + q[3] * q[3] + q[4] * q[4]

\* Components and divisor without common factors of two.
RECURSIVE Reduced(_)
Reduced(r) ==
    IF /\ r.n2 % 4 = 0
       /\ \A i \in 1..4 : r.q[i] % 2 = 0
       /\ r.q # <<0, 0, 0, 0>>
    THEN Reduced([q |-> [i \in 1..4 |-> r.q[i] \div 2], n2 |-> r.n2 \div 4])
    ELSE r

\* The quaternion taken as it is.
Normalized_Not(q) == Reduced([q |-> q, n2 |-> 1])

\* scipy's Rotation normalises the quaternion it is built from.
Normalized(q) == Reduced([q |-> q, n2 |-> Norm2(q)])

\* R.from_quat raises on a packet without a quaternion and on one of norm 0.
from_quat_raises(raw) == raw = NoQuat \/ Norm2(raw) = 0

\* R.from_quat(..., scalar_first=True)
from_quat(raw) == Normalized(raw)

\* The Hamilton product of two quaternions.
Hamilton(a, b) ==
    <<a[1] * b[1] - a[2] * b[2] - a[3] * b[3] - a[4] * b[4],
      a[1] * b[2] + a[2] * b[1] + a[3] * b[4] - a[4] * b[3],
      a[1] * b[3] - a[2] * b[4] + a[3] * b[1] + a[4] * b[2],
      a[1] * b[4] + a[2] * b[3] - a[3] * b[2] + a[4] * b[1]>>

\* Rotation.__mul__: the product, normalised.
Compose(a, b) == Normalized(Hamilton(a.q, b.q))

\* R.from_rotvec([k quarter turns, 0, 0]): cos and sin of k eighth turns.
RECURSIVE from_rotvec(_)
from_rotvec(k) ==
    IF k = 0 THEN Normalized(<<1, 0, 0, 0>>)
    ELSE IF k > 0 THEN Compose(from_rotvec(k - 1), Normalized(<<1, 1, 0, 0>>))
    ELSE Compose(from_rotvec(k + 1), Normalized(<<1, -1, 0, 0>>))

\* _first_update.  The last-packet reference is assigned first; np.mean
\* raises on a packet without a usable estPressureAlt, and R.from_quat on
\* a packet without a quaternion.
first_update(st) ==
    LET batch == st.data_packets
        s1 == [st EXCEPT !.last_data_packet = FirstReference(batch)]
        s2 == [s1 EXCEPT !.initial_altitude =
                  [sum |-> SumSeq([i \in 1..Len(batch) |-> batch[i].estPressureAlt]),
                   n |-> Len(batch)]]
    IN IF \E i \in 1..Len(batch) : batch[i].estPressureAlt = None
       THEN [raised |-> TRUE, st |-> s1]
       ELSE IF from_quat_raises(s1.last_data_packet.quat)
       THEN [raised |-> TRUE, st |-> s2]
       ELSE [raised |-> FALSE,
             st |-> [s2 EXCEPT !.current_orientation_quaternions =
                                   from_quat(s1.last_data_packet.quat)]]

\* _calculate_time_differences: np.diff over [last packet, *batch].
calculate_time_differences(last, batch) ==
    [i \in 1..Len(batch) |->
        batch[i].timestamp
          - (IF i = 1 THEN last.timestamp ELSE batch[i - 1].timestamp)]

\* Rotation.apply followed by [2]: the third component of the vector a
\* turned by the rotation o (the third row of its rotation matrix).
RotatedZ(o, a) ==
    LET w == o.q[1]
        x == o.q[2]
        y == o.q[3]
        z == o.q[4]
    IN (2 * (x * z - w * y) * a[1]
          + 2 * (y * z + w * x) * a[2]
          + (w * w - x * x - y * y + z * z) * a[3]) \div o.n2

\* current_orientation after i passes of the loop of
\* _calculate_rotated_accelerations.
RECURSIVE Turned(_, _, _, _)
Turned(orientation, batch, dts, i) ==
    IF i = 0 THEN orientation
    ELSE Compose(Turned(orientation, batch, dts, i - 1),
                 from_rotvec(batch[i].gyro * dts[i]))

\* _calculate_rotated_accelerations.  It raises when the orientation was
\* never set or a packet has no acceleration; the orientation is assigned
\* only after the loop.
calculate_rotated_accelerations(orientation, batch, dts) ==
    LET turn(i) == Turned(orientation, batch, dts, i)
    IN IF orientation = NoOrientation
          \/ \E i \in 1..Len(batch) : batch[i].accel = NoAccel
       THEN [raised |-> TRUE, accs |-> <<>>, orientation |-> orientation]
       ELSE [raised |-> FALSE,
             accs |-> [i \in 1..Len(batch) |-> -RotatedZ(turn(i), batch[i].accel)],
             orientation |-> turn(Len(batch))]

\* _calculate_vertical_velocity with the sum started from zero in every batch.
calculate_vertical_velocity_NoCarry(previous, accs, dts) ==
    CumSum([i \in 1..Len(accs) |->
               deadband(accs[i] - GRAVITY_METERS_PER_SECOND_SQUARED,
                        ACCEL_DEADBAND_METERS_PER_SECOND_SQUARED) * dts[i]])

\* _calculate_vertical_velocity, without the assignment of
\* _previous_vertical_velocity (made in update_nonempty).
calculate_vertical_velocity(previous, accs, dts) ==
    LET vertical_accelerations ==
            [i \in 1..Len(accs) |->
                deadband(accs[i] - GRAVITY_METERS_PER_SECOND_SQUARED,
                         ACCEL_DEADBAND_METERS_PER_SECOND_SQUARED)]
        sums == CumSum([i \in 1..Len(accs) |-> vertical_accelerations[i] * dts[i]])
    IN [i \in 1..Len(accs) |-> previous + sums[i]]

\* _calculate_current_altitudes (times baseline.n).  It raises when the
\* baseline is None or a packet has no usable estPressureAlt.
calculate_current_altitudes(baseline, batch) ==
    IF baseline.n = 0 \/ \E i \in 1..Len(batch) : batch[i].estPressureAlt = None
    THEN [raised |-> TRUE, alts |-> <<>>]
    ELSE [raised |-> FALSE,
          alts |-> [i \in 1..Len(batch) |->
                       baseline.n * batch[i].estPressureAlt - baseline.sum]]

\* The maximum of the latest batch alone.
running_max_OfBatch(values, sofar) == SeqMax(values)

\* update, lines 125-130: max(<new values>.max(), <maximum so far>).
running_max(values, sofar) ==
    IF SeqMax(values) > sofar THEN SeqMax(values) ELSE sofar

\* update, lines 128-133, given the result of _calculate_current_altitudes.
update_altitudes(st, alt, batch) ==
    IF alt.raised
    THEN [raised |-> TRUE, st |-> st]
    ELSE [raised |-> FALSE,
          st |-> [st EXCEPT !.current_altitudes = alt.alts,
                            !.max_altitude = running_max(alt.alts, st.max_altitude),
                            !.last_data_packet = batch[Len(batch)]]]

\* update, lines 124-127, given the result of _calculate_vertical_velocity,
\* which also assigns _previous_vertical_velocity; then the altitude steps.
update_velocities(st, vv, batch) ==
    update_altitudes(
        [st EXCEPT !.vertical_velocities = vv,
                   !.previous_vertical_velocity = vv[Len(vv)],
                   !.max_vertical_velocity = running_max(vv, st.max_vertical_velocity)],
        calculate_current_altitudes(st.initial_altitude, batch),
        batch)

\* update, line 123, given the result of _calculate_rotated_accelerations;
\* then the velocity steps.
update_rotations(st, rot, batch) ==
    IF rot.raised
    THEN [raised |-> TRUE, st |-> st]
    ELSE update_velocities(
             [st EXCEPT !.rotated_accelerations = rot.accs,
                        !.current_orientation_quaternions = rot.orientation],
             calculate_vertical_velocity(
                 st.previous_vertical_velocity, rot.accs, st.time_differences),
             batch)

\* update, line 122, given the time differences; then the steps after it.
update_time_differences(st, dts, batch) ==
    update_rotations(
        [st EXCEPT !.time_differences = dts],
        calculate_rotated_accelerations(st.current_orientation_quaternions, batch, dts),
        batch)

\* update, lines 118-122, given the result of _first_update (or none).
update_first(f, batch) ==
    IF f.raised
    THEN [raised |-> TRUE, st |-> f.st]
    ELSE update_time_differences(
             f.st, calculate_time_differences(f.st.last_data_packet, batch), batch)

\* update for a non-empty batch, lines 114-133.  Every step assigns its
\* result to the processor before the next one runs, so a step that raises
\* leaves the assignments made before it.
update_nonempty(st, batch) ==
    update_first(
        IF st.last_data_packet = NoPacket
        THEN first_update([st EXCEPT !.data_packets = batch])
        ELSE [raised |-> FALSE, st |-> [st EXCEPT !.data_packets = batch]],
        batch)

\* update with the batch stored before the emptiness test.
update_result_StoreFirst(st, batch) ==
    IF batch = <<>>
    THEN [raised |-> FALSE, st |-> [st EXCEPT !.data_packets = batch]]
    ELSE update_nonempty(st, batch)

\* update: an empty batch returns at once (lines 110-112).
update_result(st, batch) ==
    IF batch = <<>>
    THEN [raised |-> FALSE, st |-> st]
    ELSE update_nonempty(st, batch)

\* get_processed_data_packets: one packet per element of _data_packets, read
\* from the four result arrays; an index beyond an array raises IndexError.
get_processed_data_packets(st) ==
    LET n == Len(st.data_packets)
    IN IF \/ n > Len(st.current_altitudes)
          \/ n > Len(st.vertical_velocities)
          \/ n > Len(st.rotated_accelerations)
          \/ n > Len(st.time_differences)
       THEN [called |-> TRUE, raised |-> TRUE, packets |-> <<>>]
       ELSE [called |-> TRUE, raised |-> FALSE,
             packets |-> [i \in 1..n |->
                 [current_altitude |-> st.current_altitudes[i],
                  vertical_velocity |-> st.vertical_velocities[i],
                  vertical_acceleration |-> st.rotated_accelerations[i],
                  time_since_last_data_packet |-> st.time_differences[i]]]]

\* A call of update with the batch tb.
update(tb) ==
    LET batch == Materialize(clock, tb)
        r == update_result(ProcState, batch)
        ok == allOk /\ ~r.raised
    IN /\ nfed + Len(tb) <= MaxSamples
       /\ data_packets' = r.st.data_packets
       /\ initial_altitude' = r.st.initial_altitude
       /\ last_data_packet' = r.st.last_data_packet
       /\ current_orientation_quaternions' = r.st.current_orientation_quaternions
       /\ max_altitude' = r.st.max_altitude
       /\ max_vertical_velocity' = r.st.max_vertical_velocity
       /\ previous_vertical_velocity' = r.st.previous_vertical_velocity
       /\ rotated_accelerations' = r.st.rotated_accelerations
       /\ time_differences' = r.st.time_differences
       /\ vertical_velocities' = r.st.vertical_velocities
       /\ current_altitudes' = r.st.current_altitudes
       /\ emitted' = NotCalled
       /\ tick' = ~tick
       /\ lastLen' = Len(batch)
       /\ nfed' = nfed + Len(batch)
       /\ IF batch = <<>>
          THEN UNCHANGED <<clock, outcome, lastOrdered, firstBatch, allOk, fedAll,
                          emittedV>>
          ELSE /\ clock' = batch[Len(batch)].timestamp
               /\ outcome' = IF r.raised THEN "raised" ELSE "ok"
               /\ lastOrdered' = Ordered(tb, nfed = 0)
               /\ firstBatch' = IF firstBatch = <<>> THEN batch ELSE firstBatch
               /\ allOk' = ok
               /\ fedAll' = IF ok THEN fedAll \o batch ELSE <<>>
               /\ emittedV' = IF ok THEN emittedV \o r.st.vertical_velocities
                              ELSE <<>>
       /\ UNCHANGED nonProcVars

\* A call of get_processed_data_packets.
GetProcessed ==
    /\ ~emitted.called
    /\ emitted' = get_processed_data_packets(ProcState)
    /\ UNCHANGED <<data_packets, initial_altitude, last_data_packet,
                   current_orientation_quaternions, max_altitude,
                   max_vertical_velocity, previous_vertical_velocity,
                   rotated_accelerations, time_differences, vertical_velocities,
                   current_altitudes, clock, tick, lastLen, outcome, nfed,
                   lastOrdered, firstBatch, allOk, fedAll, emittedV>>
    /\ UNCHANGED nonProcVars

ProcInit == SubInit /\ AcqIdle /\ ProcIdle /\ DbIdle /\ AltIdle /\ MockIdle /\ LaterIdle

ProcNext ==
    \/ \E tb \in Batches(MaxSamples - nfed) : update(tb)
    \/ GetProcessed

SpecProc == ProcInit /\ [][ProcNext]_vars


(***************************************************************************)
(* Claims on IMUDataProcessor (SpecProc)                                   *)
(***************************************************************************)

\* The step is a call of update with a non-empty batch.
UpdateStep == tick' # tick /\ lastLen' > 0

\* The altitude of a packet above the mean altitude of the first batch
\* passed to update, in the scale of _current_altitudes.
AboveFirstBatch(packet) ==
    Len(firstBatch) * packet.estPressureAlt
      - SumSeq([i \in 1..Len(firstBatch) |-> firstBatch[i].estPressureAlt])

\* C11: a call of update that raises, or whose batch has a packet older than
\* the one before it, leaves the baseline altitude, the orientation, the
\* carried velocity, the last-packet reference and the stored batch exactly
\* as they were before the call.
C11_FailedUpdateChangesNothing ==
    [][(UpdateStep /\ (outcome' = "raised" \/ ~lastOrdered'))
         => /\ initial_altitude' = initial_altitude
            /\ current_orientation_quaternions' = current_orientation_quaternions
            /\ previous_vertical_velocity' = previous_vertical_velocity
            /\ last_data_packet' = last_data_packet
            /\ data_packets' = data_packets]_vars

\* C12: a batch with a packet older than the one before it is rejected with
\* an error; no time difference that update integrates is negative, and no
\* packet is emitted with a negative time_since_last_data_packet.
C12_DisorderedBatchRejected ==
    /\ (lastLen > 0 /\ ~lastOrdered) => outcome = "raised"
    /\ \A i \in 1..Len(time_differences) : time_differences[i] >= 0
    /\ \A i \in 1..Len(emitted.packets) :
           emitted.packets[i].time_since_last_data_packet >= 0

\* C13: from the first non-empty batch passed to update on, the baseline
\* altitude is the mean pressure-altitude of that batch (its sum over its
\* length), whatever calls of update follow.
C13_BaselineIsMeanOfFirstBatch ==
    firstBatch # <<>>
      => /\ initial_altitude.n = Len(firstBatch)
         /\ initial_altitude.sum =
                SumSeq([i \in 1..Len(firstBatch) |-> firstBatch[i].estPressureAlt])

\* C14: get_processed_data_packets returns one packet per sample of the most
\* recent non-empty batch passed to update, in order, the i-th computed from
\* the i-th sample (its time since the sample before it, its altitude above
\* the baseline); before any update it returns the empty list.
C14_OnePacketPerSample ==
    emitted.called
      => /\ ~emitted.raised
         /\ Len(emitted.packets) = Len(data_packets)
         /\ \A i \in 1..Len(emitted.packets) :
               /\ i > 1 => emitted.packets[i].time_since_last_data_packet
                             = data_packets[i].timestamp - data_packets[i - 1].timestamp
               /\ data_packets[i].estPressureAlt # None
                    => emitted.packets[i].current_altitude
                         = AboveFirstBatch(data_packets[i])

\* C15: a call of update with an empty batch changes no field of the
\* processor, and so not what get_processed_data_packets returns.
C15_EmptyBatchChangesNothing ==
    [][(tick' # tick /\ lastLen' = 0)
         => /\ ProcState' = ProcState
            /\ get_processed_data_packets(ProcState)'
                 = get_processed_data_packets(ProcState)]_vars

\* C15 witness: an empty batch was passed after a batch that was processed.
C15_Witness == lastLen = 0 /\ nfed > 0 /\ outcome = "ok"

C17_FirstSampleContributesNothing ==
    (firstBatch # <<>> /\ nfed = Len(firstBatch))
      => /\ time_differences[1] = 0
         /\ vertical_velocities[1] = 0
         /\ (emitted.called /\ ~emitted.raised)
              => /\ emitted.packets[1].time_since_last_data_packet = 0
                 /\ emitted.packets[1].vertical_velocity = 0

\* C17 witness: the first update processed a batch of several samples whose
\* later samples have a velocity, and its packets were emitted.
C17_Witness ==
    /\ firstBatch # <<>>
    /\ nfed = Len(firstBatch)
    /\ outcome = "ok"
    /\ emitted.called
    /\ Len(emitted.packets) > 1
    /\ emitted.packets[2].vertical_velocity # 0

\* C19: every emitted current_altitude is the sample's pressure-altitude
\* minus the mean altitude of the first batch; a first batch of one sample
\* gives that sample the altitude 0.
C19_AltitudeAboveBaseline ==
    (emitted.called /\ ~emitted.raised)
      => \A i \in 1..Len(emitted.packets) :
            data_packets[i].estPressureAlt # None
              => emitted.packets[i].current_altitude
                   = AboveFirstBatch(data_packets[i])

\* The property of C19 for the packets emitted after an update that returned.
AltitudeAboveBaselineAfterReturn ==
    (emitted.called /\ outcome = "ok")
      => /\ ~emitted.raised
         /\ \A i \in 1..Len(emitted.packets) :
               emitted.packets[i].current_altitude
                 = AboveFirstBatch(data_packets[i])

\* C20: the two maxima never decrease, and no current altitude or vertical
\* velocity the processor holds (and so none it has emitted) exceeds them.
C20_RunningMaxima ==
    /\ [](/\ \A i \in 1..Len(current_altitudes) :
                current_altitudes[i] <= max_altitude
          /\ \A i \in 1..Len(vertical_velocities) :
                vertical_velocities[i] <= max_vertical_velocity
          /\ \A i \in 1..Len(emitted.packets) :
                /\ emitted.packets[i].current_altitude <= max_altitude
                /\ emitted.packets[i].vertical_velocity <= max_vertical_velocity)
    /\ [][/\ max_altitude' >= max_altitude
          /\ max_vertical_velocity' >= max_vertical_velocity]_vars

\* C20 witness: after a batch that set both maxima, a batch was processed
\* whose altitudes and velocities all lie below them.
C20_Witness ==
    /\ outcome = "ok"
    /\ lastLen > 0
    /\ max_altitude > 0
    /\ max_vertical_velocity > 0
    /\ \A i \in 1..Len(current_altitudes) : current_altitudes[i] < max_altitude
    /\ \A i \in 1..Len(vertical_velocities) :
           vertical_velocities[i] < max_vertical_velocity

\* C21: after a call of update with a non-empty batch that returned, the
\* processor holds an orientation quaternion, and its norm is 1.
C21_OrientationHasUnitNorm ==
    (outcome = "ok" /\ lastLen > 0)
      => /\ current_orientation_quaternions # NoOrientation
         /\ Norm2(current_orientation_quaternions.q)
              = current_orientation_quaternions.n2

C21_Witness ==
    /\ outcome = "ok"
    /\ lastLen > 0
    /\ firstBatch # <<>>
    /\ firstBatch[1].quat = <<2, 2, 0, 0>>
    /\ current_orientation_quaternions.q = <<0, 1, 0, 0>>

\* C33: the last-packet reference is set exactly when the baseline altitude
\* and the orientation are both set.
C33_ReferenceIffInitialized ==
    (last_data_packet # NoPacket)
      <=> (initial_altitude # NoBaseline
           /\ current_orientation_quaternions # NoOrientation)


(***************************************************************************)
(* deadband: src/payload/utils.py                                          *)
(***************************************************************************)

\* Inputs run over -MaxDeadband..MaxDeadband, thresholds over 0..MaxDeadband.
MaxDeadband == 7

DeadbandInit ==
    /\ SubInit /\ AcqIdle /\ ProcIdle /\ AltIdle /\ MockIdle /\ LaterIdle
    /\ db_input \in -MaxDeadband..MaxDeadband
    /\ db_threshold \in 0..MaxDeadband
    /\ db_output = 0
    /\ db_done = FALSE

\* A call deadband(db_input, db_threshold).
ApplyDeadband ==
    /\ ~db_done
    /\ db_output' = deadband(db_input, db_threshold)
    /\ db_done' = TRUE
    /\ UNCHANGED <<db_input, db_threshold>>
    /\ UNCHANGED nonDbVars

DeadbandNext == ApplyDeadband

SpecDeadband == DeadbandInit /\ [][DeadbandNext]_vars

MaxRows == 3
\* 1 / FREQUENCY, in clock ticks.
SAMPLE_INTERVAL == 2
\* The clock is followed until this many ticks have passed since the last
\* returned sample; the code does not tell longer waits apart.
MaxElapsed == 3

\* current_time - self._last_fetch_time < 1 / FREQUENCY
TooSoon_Never(current_time, last) == FALSE
TooSoon(current_time, last) == current_time - last < SAMPLE_INTERVAL

\* self._current_index += 1
NextIndex_Stay(index) == index
NextIndex(index) == index + 1

\* _fetch_data: how the call ends, the row it returns (rows are named by
\* their position in the file), and the cursor and last-fetch time it leaves.
fetch_data(current_time, last, index, n) ==
    IF TooSoon(current_time, last)
    THEN [result |-> "notyet", row |-> None, index |-> index, last |-> last]
    ELSE IF index >= n
    THEN [result |-> "stop", row |-> None, index |-> index, last |-> last]
    ELSE [result |-> "sample", row |-> index, index |-> NextIndex(index),
          last |-> current_time]

\* The effect of a call of _fetch_data that ended as f.
ApplyFetch(f) ==
    /\ current_index' = f.index
    /\ last_fetch_time' = f.last
    /\ lastResult' = f.result
    /\ fetchTick' = ~fetchTick
    /\ returned' = IF f.result = "sample" THEN Append(returned, f.row) ELSE returned
    /\ sampleTimes' = IF f.result = "sample" THEN Append(sampleTimes, now)
                      ELSE sampleTimes

\* MockIMU.__init__ on a recording of nrows rows; time.time() is far from 0.
MockInit ==
    /\ SubInit /\ AcqIdle /\ ProcIdle /\ DbIdle /\ AltIdle
    /\ ShimIdle /\ ReaderIdle /\ DecIdle
    /\ args_mock = TRUE
    /\ phase = "STANDBY"
    /\ end_mock_interrupted = FALSE
    /\ stop_calls = <<>>
    /\ current_index = 0
    /\ last_fetch_time = 0
    /\ mock_is_running = TRUE
    /\ nrows \in 0..MaxRows
    /\ now = SAMPLE_INTERVAL
    /\ fast_replay \in BOOLEAN
    /\ producer_alive = FALSE
    /\ returned = <<>>
    /\ sampleTimes = <<>>
    /\ lastResult = "none"
    /\ fetchTick = FALSE
    /\ loop_pc = "init"
    /\ loop_exit = "none"
    /\ end_mock_natural = FALSE

\* The wall clock advances.
Tick ==
    /\ now - last_fetch_time < MaxElapsed
    /\ now' = now + 1
    /\ UNCHANGED <<current_index, last_fetch_time, mock_is_running, nrows, fast_replay,
                   producer_alive, returned, sampleTimes, lastResult, fetchTick,
                   loop_pc, loop_exit, end_mock_natural>>
    /\ UNCHANGED nonMockVars

\* A call of _fetch_data.
FetchData ==
    /\ ApplyFetch(fetch_data(now, last_fetch_time, current_index, nrows))
    /\ UNCHANGED <<mock_is_running, nrows, now, fast_replay, producer_alive,
                   loop_pc, loop_exit, end_mock_natural>>
    /\ UNCHANGED nonMockVars

MockNext == Tick \/ FetchData

SpecMock == MockInit /\ [][MockNext]_vars

\* A call of _fetch_data has just been made.
FetchStep == fetchTick' # fetchTick

C23_ExhaustedIsTerminal ==
    [][(FetchStep /\ current_index = nrows) => lastResult' = "stop"]_vars

\* Every returned sample but the first comes at least one nominal interval
\* after the one before it.
SamplesPaced ==
    \A i \in 1..Len(sampleTimes) - 1 :
        sampleTimes[i + 1] - sampleTimes[i] >= SAMPLE_INTERVAL

\* A call less than one nominal interval after the last returned sample
\* reports 'not yet' and leaves the cursor and the last-fetch time alone.
EarlyFetchChangesNothing ==
    (FetchStep /\ returned # <<>> /\ now - sampleTimes[Len(sampleTimes)] < SAMPLE_INTERVAL)
      => /\ lastResult' = "notyet"
         /\ current_index' = current_index
         /\ last_fetch_time' = last_fetch_time
         /\ returned' = returned

\* C25: a call of _fetch_data less than 1/FREQUENCY after the last returned
\* sample reports 'not yet' and changes neither the cursor nor the
\* last-fetch time, so two samples are never returned less than one
\* nominal interval apart.
C25_PacingKeepsInterval == []SamplesPaced /\ [][EarlyFetchChangesNothing]_vars

C25_Witness == Len(returned) >= 2 /\ lastResult = "notyet" /\ current_index < nrows

\* C26: with fast_replay set, a fetch made while rows are left returns the
\* next row: it never reports 'not yet'.
C26_FastReplayUnpaced ==
    [][(FetchStep /\ fast_replay /\ current_index < nrows)
         => (lastResult' = "sample" /\ returned' = Append(returned, current_index))]_vars


(***************************************************************************)
(* run_flight_loop (src/payload/main.py)                                   *)
(***************************************************************************)

\* args.mock and (not args.real_imu and not payload.imu.is_running)
LoopBreaks(mock, real_imu, imu_is_running) == mock /\ (~real_imu /\ ~imu_is_running)

\* The else clause of the try statement: end_mock_natural afterwards.
try_else_Skipped(mock, flag) == flag
try_else(mock, flag) == IF mock THEN TRUE ELSE flag

\* The except KeyboardInterrupt clause: end_mock_interrupted afterwards.
except_KeyboardInterrupt_Ungated(mock, flag) == TRUE
except_KeyboardInterrupt(mock, flag) == IF mock THEN TRUE ELSE flag

\* The finally clause: the stop() calls made so far, then its own.
finally_clause_PayloadOnly(calls) == calls \o <<"payload">>
finally_clause(calls) == calls \o <<"display", "payload">>

\* How a call of payload.start() or payload.update() can end.
Outcomes == {"ok", "KeyboardInterrupt", "Exception"}

\* The flight phase after an update that moves it on.
NextPhase(ph) ==
    CASE ph = "STANDBY" -> "ARMED"
      [] ph = "ARMED" -> "LANDED"
      [] ph = "LANDED" -> "LANDED"

\* The try statement ends: by its break ("natural"), in the except
\* KeyboardInterrupt clause ("interrupted") or in the except Exception
\* clause, which re-raises ("exception"); then the finally clause, whose
\* payload.stop() stops the IMU.
ExitLoop(how) ==
    /\ loop_pc' = "done"
    /\ loop_exit' = how
    /\ end_mock_natural' = IF how = "natural"
                           THEN try_else(args_mock, end_mock_natural)
                           ELSE end_mock_natural
    /\ end_mock_interrupted' = IF how = "interrupted"
                               THEN except_KeyboardInterrupt(args_mock,
                                                             end_mock_interrupted)
                               ELSE end_mock_interrupted
    /\ stop_calls' = finally_clause(stop_calls)
    /\ mock_is_running' = FALSE
    /\ producer_alive' = FALSE

\* How the try statement ends when a call ends as o.
ExitOf(o) == IF o = "KeyboardInterrupt" THEN "interrupted" ELSE "exception"

ReplayInit == MockInit

\* payload.start() and flight_display.start().  In mock replay the producer
\* context of the replay source is activated.
FlightLoopStart(o) ==
    /\ loop_pc = "init"
    /\ IF o = "ok"
       THEN /\ loop_pc' = "running"
            /\ producer_alive' = args_mock
            /\ UNCHANGED <<loop_exit, end_mock_natural, end_mock_interrupted,
                           stop_calls, mock_is_running>>
       ELSE ExitLoop(ExitOf(o))
    /\ UNCHANGED <<current_index, last_fetch_time, nrows, now, fast_replay, returned,
                   sampleTimes, lastResult, fetchTick, args_mock, phase>>
    /\ UNCHANGED nonLoopVars

\* One step of the producer context: a call of _fetch_data.  StopIteration
\* ends the producer, which clears is_running.
ProducerStep ==
    /\ producer_alive
    /\ LET f == fetch_data(now, last_fetch_time, current_index, nrows) IN
         /\ ApplyFetch(f)
         /\ producer_alive' = (f.result # "stop")
         /\ mock_is_running' = (mock_is_running /\ f.result # "stop")
    /\ UNCHANGED <<nrows, now, fast_replay, loop_pc, loop_exit, end_mock_natural>>
    /\ UNCHANGED nonMockVars

\* One pass of the while loop with args.real_imu false: payload.update(),
\* which ends as o and may move the flight phase on, then the is_running
\* check; when the loop is left, the clauses of the try statement.
FlightLoopIteration(o, advance) ==
    /\ loop_pc = "running"
    /\ IF o = "ok"
       THEN /\ phase' = IF advance THEN NextPhase(phase) ELSE phase
            /\ IF LoopBreaks(args_mock, FALSE, mock_is_running)
               THEN ExitLoop("natural")
               ELSE UNCHANGED <<loop_pc, loop_exit, end_mock_natural,
                                end_mock_interrupted, stop_calls, mock_is_running,
                                producer_alive>>
       ELSE /\ phase' = phase
            /\ ExitLoop(ExitOf(o))
    /\ UNCHANGED <<current_index, last_fetch_time, nrows, now, fast_replay, returned,
                   sampleTimes, lastResult, fetchTick, args_mock>>
    /\ UNCHANGED nonLoopVars

\* A pass in which payload.update() returns.
FlightLoopPass == \E advance \in BOOLEAN : FlightLoopIteration("ok", advance)

ReplayNext == Tick \/ FlightLoopStart("ok") \/ ProducerStep \/ FlightLoopPass

\* The clock advances, and the producer context and the control loop are
\* both scheduled.
SpecReplay ==
    /\ ReplayInit
    /\ [][ReplayNext]_vars
    /\ WF_vars(Tick)
    /\ WF_vars(FlightLoopStart("ok"))
    /\ WF_vars(ProducerStep)
    /\ WF_vars(FlightLoopPass)

\* run_flight_loop in mock replay or in a real flight.
LoopInit ==
    /\ SubInit /\ AcqIdle /\ ProcIdle /\ DbIdle /\ AltIdle
    /\ ShimIdle /\ ReaderIdle /\ DecIdle
    /\ args_mock \in BOOLEAN
    /\ phase = "STANDBY"
    /\ end_mock_interrupted = FALSE
    /\ stop_calls = <<>>
    /\ current_index = 0
    /\ last_fetch_time = 0
    /\ mock_is_running = TRUE
    /\ nrows \in (IF args_mock THEN 1..MaxRows ELSE {0})
    /\ now = SAMPLE_INTERVAL
    /\ fast_replay = FALSE
    /\ producer_alive = FALSE
    /\ returned = <<>>
    /\ sampleTimes = <<>>
    /\ lastResult = "none"
    /\ fetchTick = FALSE
    /\ loop_pc = "init"
    /\ loop_exit = "none"
    /\ end_mock_natural = FALSE

LoopNext ==
    \/ Tick
    \/ ProducerStep
    \/ \E o \in Outcomes : FlightLoopStart(o)
    \/ \E o \in Outcomes, advance \in BOOLEAN : FlightLoopIteration(o, advance)

\* The clock advances and the producer context and the control loop are
\* scheduled; nothing obliges a call to raise.
SpecLoop ==
    /\ LoopInit
    /\ [][LoopNext]_vars
    /\ WF_vars(Tick)
    /\ WF_vars(ProducerStep)
    /\ WF_vars(\E o \in Outcomes : FlightLoopStart(o))
    /\ WF_vars(FlightLoopPass)

\* When the flight loop has ended, it ended through the is_running check on
\* the natural path, after the whole recording was replayed.
ReplayEndsNaturally ==
    /\ lastResult = "stop" => ~mock_is_running
    /\ loop_pc = "done"
         => /\ loop_exit = "natural"
            /\ end_mock_natural
            /\ ~mock_is_running
            /\ Len(returned) = nrows

C31_LandedEndsLoop == (phase = "LANDED" /\ loop_pc = "running") ~> (loop_pc = "done")

\* C34: while the loop runs no stop() has been called, and once the
\* function has ended, however it ended, flight_display.stop() and then
\* payload.stop() have each been called exactly once.
C34_StopsCalledOnce ==
    /\ loop_pc # "done" => stop_calls = <<>>
    /\ loop_pc = "done" => stop_calls = <<"display", "payload">>

C34_Witness ==
    /\ loop_pc = "done"
    /\ loop_exit = "exception"
    /\ phase = "ARMED"
    /\ stop_calls = <<"display", "payload">>

\* C35: end_mock_natural is set only in mock mode after the loop ended by
\* its break, end_mock_interrupted only in mock mode after a
\* KeyboardInterrupt, never both, and neither in a real flight or after
\* another exception.
C35_EndMarkersExclusive ==
    /\ end_mock_natural => (args_mock /\ loop_exit = "natural")
    /\ end_mock_interrupted => (args_mock /\ loop_exit = "interrupted")
    /\ ~(end_mock_natural /\ end_mock_interrupted)
    /\ (~args_mock \/ loop_exit = "exception")
         => (~end_mock_natural /\ ~end_mock_interrupted)

C35_Witness ==
    /\ loop_pc = "done"
    /\ args_mock
    /\ loop_exit = "interrupted"
    /\ end_mock_interrupted
    /\ returned # <<>>


(***************************************************************************)
(* The queue with the Windows shim (src/payload/utils.py)                  *)
(***************************************************************************)

\* The lists of at most MaxListLen packets a producer passes to put_many.
ShimLists == UNION { [1..k -> 1..2] : k \in 0..MaxListLen }

\* get_always_list returning what it fetched as it is.
get_always_list_Unwrapped(fetched) == fetched

\* get_always_list: the fetched item when it is a list, else [fetched].
get_always_list(fetched) ==
    IF fetched.list THEN fetched ELSE ListOf(<<fetched.items[1]>>)

\* obj.put_many = obj.put: the list goes into the queue as one item.
put_many(q, ps) == Append(q, ListOf(ps))

ShimInit ==
    /\ SubInit /\ AcqIdle /\ ProcIdle /\ DbIdle /\ AltIdle /\ MockIdle
    /\ LoopIdle /\ ReaderIdle /\ DecIdle
    /\ ShimIdle

\* put_many(ps) on a queue that has room.
PutMany(ps) ==
    /\ Len(shim_queue) < MAX_QUEUE_SIZE
    /\ shim_queue' = put_many(shim_queue, ps)
    /\ shim_log' = Append(shim_log, ps)
    /\ UNCHANGED <<shim_got, shim_src>>
    /\ UNCHANGED nonShimVars

\* put(p) of a single packet on a queue that has room.
PutSingle(p) ==
    /\ Len(shim_queue) < MAX_QUEUE_SIZE
    /\ shim_queue' = Append(shim_queue, Single(p))
    /\ shim_log' = Append(shim_log, <<p>>)
    /\ UNCHANGED <<shim_got, shim_src>>
    /\ UNCHANGED nonShimVars

\* get_many() on a queue that holds an item (the get blocks on an empty one).
GetMany ==
    /\ shim_queue # <<>>
    /\ shim_got' = get_always_list(Head(shim_queue))
    /\ shim_src' = Head(shim_log)
    /\ shim_queue' = Tail(shim_queue)
    /\ shim_log' = Tail(shim_log)
    /\ UNCHANGED nonShimVars

ShimNext ==
    \/ \E ps \in ShimLists : PutMany(ps)
    \/ \E p \in 1..2 : PutSingle(p)
    \/ GetMany

SpecShim == ShimInit /\ [][ShimNext]_vars

\* C38: what get_many returns is a list, and it is the list that was passed
\* to put_many, in order (for a single packet that was put, the list of that
\* packet alone).
C38_ShimRoundTrip ==
    shim_got # NoItem => (shim_got.list /\ shim_got.items = shim_src)

C38_Witness ==
    /\ shim_got.list
    /\ Len(shim_got.items) = MaxListLen
    /\ shim_got.items[1] # shim_got.items[2]
    /\ shim_queue # <<>>
    /\ ~Head(shim_queue).list



(***************************************************************************)
(* Claims on main()'s interrupt handling (SpecInterrupt)                   *)
(***************************************************************************)

\* C37: a KeyboardInterrupt delivered at any point of an iteration of the
\* main loop (in readline, or inside parse_data) ends in shutdown(): running
\* is false and the CSV file and the serial port are closed.
C37_InterruptShutsDown ==
    [][interrupts' # interrupts => (~running' /\ closed')]_vars


(***************************************************************************)
(* PayloadSystem (src/spaceducks/Subscale.py): the reader thread and       *)
(* shutdown(), one action per statement that touches shared state          *)
(***************************************************************************)

MaxReads == 6          \* lines the reader thread reads in one run

\* read_serial_data, line 52: while self.running.
ReaderWhile ==
    /\ rpc = "while"
    /\ rpc' = IF ps_running THEN "in_waiting" ELSE "done"
    /\ UNCHANGED <<ps_running, ps_open, spc, ps_reads, ps_after_close>>
    /\ UNCHANGED nonReaderVars

\* Line 53: self.serial_connection.in_waiting > 0.  On a closed port the
\* query raises, and the exception ends the thread.
ReaderInWaiting(avail) ==
    /\ rpc = "in_waiting"
    /\ IF ~ps_open
       THEN /\ ps_after_close' = TRUE
            /\ rpc' = "crashed"
       ELSE /\ rpc' = IF avail /\ ps_reads < MaxReads THEN "readline" ELSE "sleep"
            /\ UNCHANGED ps_after_close
    /\ UNCHANGED <<ps_running, ps_open, spc, ps_reads>>
    /\ UNCHANGED nonReaderVars

\* Line 54: self.serial_connection.readline().  On a closed port the read
\* raises, and the exception ends the thread.
ReaderReadline ==
    /\ rpc = "readline"
    /\ IF ~ps_open
       THEN /\ ps_after_close' = TRUE
            /\ rpc' = "crashed"
            /\ UNCHANGED ps_reads
       ELSE /\ ps_reads' = ps_reads + 1
            /\ rpc' = "parse"
            /\ UNCHANGED ps_after_close
    /\ UNCHANGED <<ps_running, ps_open, spc>>
    /\ UNCHANGED nonReaderVars

\* Line 55: self.parse_data(line); it does not touch the port.
ReaderParse ==
    /\ rpc = "parse"
    /\ rpc' = "sleep"
    /\ UNCHANGED <<ps_running, ps_open, spc, ps_reads, ps_after_close>>
    /\ UNCHANGED nonReaderVars

\* Line 56: time.sleep(0.05).
ReaderSleep ==
    /\ rpc = "sleep"
    /\ rpc' = "while"
    /\ UNCHANGED <<ps_running, ps_open, spc, ps_reads, ps_after_close>>
    /\ UNCHANGED nonReaderVars

\* shutdown(), line 126: self.running = False.
ShutdownClearRunning ==
    /\ spc = "idle"
    /\ ps_running' = FALSE
    /\ spc' = "close"
    /\ UNCHANGED <<ps_open, rpc, ps_reads, ps_after_close>>
    /\ UNCHANGED nonReaderVars

\* shutdown(), line 127: self.serial_connection.close().
ShutdownClose ==
    /\ spc = "close"
    /\ ps_open' = FALSE
    /\ spc' = "join"
    /\ UNCHANGED <<ps_running, rpc, ps_reads, ps_after_close>>
    /\ UNCHANGED nonReaderVars

\* shutdown(), line 128: self.sensor_thread.join() returns once the thread
\* has ended, by leaving its loop or by an exception.
ShutdownJoin ==
    /\ spc = "join"
    /\ rpc \in {"done", "crashed"}
    /\ spc' = "returned"
    /\ UNCHANGED <<ps_running, ps_open, rpc, ps_reads, ps_after_close>>
    /\ UNCHANGED nonReaderVars

ReaderInit ==
    /\ SubInit /\ AcqIdle /\ ProcIdle /\ DbIdle /\ AltIdle /\ MockIdle
    /\ LoopIdle /\ ShimIdle /\ DecIdle
    /\ ReaderIdle

ReaderStep ==
    \/ ReaderWhile
    \/ \E avail \in BOOLEAN : ReaderInWaiting(avail)
    \/ ReaderReadline
    \/ ReaderParse
    \/ ReaderSleep

ReaderNext ==
    \/ ReaderStep
    \/ ShutdownClearRunning
    \/ ShutdownClose
    \/ ShutdownJoin

SpecReader == ReaderInit /\ [][ReaderNext]_vars

\* Both threads are scheduled; shutdown() is called at some time.
SpecReaderFair ==
    /\ SpecReader
    /\ WF_vars(ReaderStep)
    /\ WF_vars(ShutdownClearRunning)
    /\ WF_vars(ShutdownClose)
    /\ WF_vars(ShutdownJoin)

\* C36: the reader thread never reads from or queries the serial connection
\* after shutdown() has closed it.
C36_NoUseAfterClose == ~ps_after_close

\* The other half of C36: shutdown() returns, the join completes.
ShutdownReturns == (spc = "close") ~> (spc = "returned")


(***************************************************************************)
(* PacketDecoder, binary mode.  Its code is not among the sources; the     *)
(* definitions follow the decoder's contract: scan for the start marker,   *)
(* require payload_size bytes after it, keep the bytes when there are too  *)
(* few, drop the marker and scan on when the frame is not plausible.       *)
(***************************************************************************)

MaxBuffer == 5         \* bytes the buffer holds in one run

\* Byte values, scaled from 0..255.
Bytes == 0..2
\* The single-byte start marker.  Payload bytes may have the same value.
START_MARKER == 2
\* Bytes of one payload (N 4-byte floats), scaled.
PAYLOAD_SIZE == 2

\* The caller-supplied structural check of a payload: here, no byte is 0.
Plausible(payload) == \A i \in 1..Len(payload) : payload[i] # 0

Sample(payload) == [kind |-> "sample", payload |-> payload]

\* A decoder that throws the buffer away when a frame is not plausible.
AfterImplausible_Flush(buf) == <<>>

\* What is scanned after a marker whose frame is not plausible: the marker
\* byte is discarded.
AfterImplausible(buf) == Tail(buf)

\* One decode call on the buffer: the sample it yields, or none, and the
\* bytes that stay buffered.
RECURSIVE decode(_)
decode(buf) ==
    IF buf = <<>>
    THEN [sample |-> NoSample, rest |-> <<>>]
    ELSE IF Head(buf) # START_MARKER
    THEN decode(Tail(buf))
    ELSE IF Len(buf) - 1 < PAYLOAD_SIZE
    THEN [sample |-> NoSample, rest |-> buf]
    ELSE IF Plausible(SubSeq(buf, 2, 1 + PAYLOAD_SIZE))
    THEN [sample |-> Sample(SubSeq(buf, 2, 1 + PAYLOAD_SIZE)),
          rest |-> SubSeq(buf, 2 + PAYLOAD_SIZE, Len(buf))]
    ELSE decode(AfterImplausible(buf))

DecoderInit ==
    /\ SubInit /\ AcqIdle /\ ProcIdle /\ DbIdle /\ AltIdle /\ MockIdle
    /\ LoopIdle /\ ShimIdle /\ ReaderIdle
    /\ DecIdle

\* A byte arrives from the sensor.
Receive(b) ==
    /\ Len(dec_buffer) < MaxBuffer
    /\ dec_buffer' = Append(dec_buffer, b)
    /\ dec_result' = NoSample
    /\ dec_prev' = <<>>
    /\ dec_tick' = FALSE
    /\ UNCHANGED nonDecVars

\* One decode call.
Decode ==
    /\ dec_prev' = dec_buffer
    /\ dec_result' = decode(dec_buffer).sample
    /\ dec_buffer' = decode(dec_buffer).rest
    /\ dec_tick' = TRUE
    /\ UNCHANGED nonDecVars

DecoderNext ==
    \/ \E b \in Bytes : Receive(b)
    \/ Decode

SpecDecoder == DecoderInit /\ [][DecoderNext]_vars

\* A plausible frame starts at position i of the buffer.
FrameAt(buf, i) ==
    /\ buf[i] = START_MARKER
    /\ i + PAYLOAD_SIZE <= Len(buf)
    /\ Plausible(SubSeq(buf, i + 1, i + PAYLOAD_SIZE))

\* The buffer is garbage, a marker and a complete valid payload: its last
\* 1 + PAYLOAD_SIZE bytes are a plausible frame and no frame starts earlier.
GarbageThenFrame(buf) ==
    /\ Len(buf) >= 1 + PAYLOAD_SIZE
    /\ FrameAt(buf, Len(buf) - PAYLOAD_SIZE)
    /\ \A i \in 1..(Len(buf) - PAYLOAD_SIZE - 1) : ~FrameAt(buf, i)

\* The buffer is only a marker and a partial payload.
MarkerThenPartial(buf) ==
    /\ buf # <<>>
    /\ Head(buf) = START_MARKER
    /\ Len(buf) - 1 < PAYLOAD_SIZE

====
